---------------------------- MODULE Spec2Model ----------------------------
(***************************************************************************)
(* ResponsiveAnalogRead: the adaptive smoothing filter (update /           *)
(* getResponsiveValue / snapCurve / setSnapMultiplier / begin) and the     *)
(* piecewise-linear range mapper (setMap / multiMap).                      *)
(*                                                                         *)
(* float values are modelled as fixed-point numbers: the integer f stands  *)
(* for the real f / FP, and every product or quotient is rounded to the    *)
(* nearest representable value, as float arithmetic rounds to the nearest  *)
(* float.  int values are plain integers; a float-to-int conversion        *)
(* truncates toward zero.                                                  *)
(*                                                                         *)
(* update() (the variant that reads the pin), getByteValue and calibrate   *)
(* are hardware and serial glue around these operations and are not part   *)
(* of the model; the _debug traces are left out of every operation.        *)
(***************************************************************************)
EXTENDS Integers, Sequences, FiniteSets

VARIABLES
    sleepEnable,                \* bool  sleepEnable
    snapMultiplier,             \* float snapMultiplier
    edgeSnapEnable,             \* bool  edgeSnapEnable
    pin,                        \* int   pin
    _max,                       \* int   _max
    _useByte,                   \* bool  _useByte
    smoothValue,                \* float smoothValue
    errorEMA,                   \* float errorEMA
    sleeping,                   \* bool  sleeping
    rawValue,                   \* int   rawValue
    responsiveValue,            \* int   responsiveValue
    prevResponsiveValue,        \* int   prevResponsiveValue
    responsiveValueHasChanged,  \* bool  responsiveValueHasChanged
    _in,                        \* int*  _in   (the caller's array, as a sequence)
    _out,                       \* int*  _out
    _mapSize,                   \* uint8_t _mapSize
    _map,                       \* bool  _map
    mm,                         \* the last multiMap call: argument, result, scan position
    lastCall,                   \* the last operation called and its arguments
    emitted,                    \* the values returned by the last two getResponsiveValue calls
    steps,                      \* number of operations called so far
    installs,                   \* number of setMap calls so far
    held,                       \* the caller's loop feeding one constant sample
    tick                        \* parity of the constant-feed loop's iterations

vars == << sleepEnable, snapMultiplier, edgeSnapEnable, pin, _max, _useByte,
           smoothValue, errorEMA, sleeping, rawValue, responsiveValue,
           prevResponsiveValue, responsiveValueHasChanged,
           _in, _out, _mapSize, _map, mm, lastCall, emitted, steps, installs, held, tick >>

configVars == << sleepEnable, snapMultiplier, edgeSnapEnable, pin, _max, _useByte >>
filterVars == << smoothValue, errorEMA, sleeping, rawValue, responsiveValue,
                 prevResponsiveValue, responsiveValueHasChanged, emitted >>
mapVars    == << _in, _out, _mapSize, _map >>

-----------------------------------------------------------------------------
(* Bounds of the model *)

\* fixed-point resolution: FP ticks make 1.0
FP == 8
\* operations called before the model stops taking new ones
MaxSteps == 4
\* largest range table supplied to setMap
MaxMapSize == 3
\* range tables installed before the model stops installing new ones
MaxInstalls == 1
\* updates made before the caller settles into feeding one constant sample
MaxWarmup == 2

-----------------------------------------------------------------------------
(* Fixed-point arithmetic *)

One == FP

Abs(x) == IF x < 0 THEN -x ELSE x

Min(a, b) == IF a < b THEN a ELSE b

Max(a, b) == IF a > b THEN a ELSE b

\* C integer division: truncates toward zero (b > 0)
TruncDiv(a, b) == IF a >= 0 THEN a \div b ELSE -((-a) \div b)

\* division rounded to the nearest integer (b > 0)
RoundDiv(a, b) == IF a >= 0 THEN (2 * a + b) \div (2 * b)
                            ELSE -((2 * (-a) + b) \div (2 * b))

FromInt(i) == i * FP

\* (int)f and (unsigned int)f for f >= 0
ToInt(f) == TruncDiv(f, FP)

FMul(a, b) == RoundDiv(a * b, FP)

FDiv(a, b) == RoundDiv(a * FP, b)

-----------------------------------------------------------------------------
(* Configuration that no operation of ResponsiveAnalogRead.cpp changes *)

\* int analogResolution: 10-bit input, values 0..1023
analogResolution == 1024

\* float activityThreshold = 4.0
activityThreshold == 4 * FP

-----------------------------------------------------------------------------
(* Inputs of the model *)

\* raw samples handed to update(int): below range, both edge zones, mid range,
\* close neighbours, above range
RawSamples == {-3, 2, 5, 6, 500, 1022, 1030}

\* multipliers handed to setSnapMultiplier / begin: -1.0, the smallest positive
\* value, 0.5, 1.0 and 5.0
Multipliers == {-FP, 1, FP \div 2, FP, 5 * FP}

\* samples fed before a constant feed starts
WarmupSamples == {5, 500, 1022}

Pins == {34}

-----------------------------------------------------------------------------
(* The responsive filter *)

\* setSnapMultiplier: the value stored for newMultiplier
ClampMultiplierUpperOnly(m) == IF m > One THEN One ELSE m

ClampMultiplier(m) ==
    LET m1 == IF m > One THEN One ELSE m
        m2 == IF m1 < 0 THEN 0 ELSE m1
    IN  m2

\* snapCurve(x)
snapCurve(x) ==
    LET y1 == FDiv(One, x + One)
        y2 == (One - y1) * 2
    IN  IF y2 > One THEN One ELSE y2

\* getResponsiveValue, lines 67-73: the sample after edge snapping
EdgeSnap(newValue) ==
    IF sleepEnable /\ edgeSnapEnable
    THEN IF FromInt(newValue) < activityThreshold
         THEN ToInt(FromInt(newValue * 2) - activityThreshold)
         ELSE IF FromInt(newValue) > FromInt(analogResolution) - activityThreshold
              THEN ToInt(FromInt(newValue * 2) - FromInt(analogResolution)
                         + activityThreshold)
              ELSE newValue
    ELSE newValue

\* line 81: errorEMA += ((newValue - smoothValue) - errorEMA) * 0.4
ErrorUpdate(nv) ==
    errorEMA + RoundDiv(((FromInt(nv) - smoothValue) - errorEMA) * 2, 5)

\* line 86: abs(errorEMA) < activityThreshold
SleepTestStrict(e) == Abs(e) < activityThreshold - One

SleepTest(e) == Abs(e) < activityThreshold

\* lines 118-122: ensure output is in bounds
ClampNone(s) == s

Clamp(s) ==
    IF s < 0 THEN 0
    ELSE IF s > FromInt(analogResolution - 1) THEN FromInt(analogResolution - 1)
    ELSE s

\* lines 76, 106-115: the exponential moving average based on the snap
SmoothReversed(nv) ==
    LET diff  == ToInt(Abs(FromInt(nv) - smoothValue))
        snap0 == snapCurve(diff * snapMultiplier)
        snap  == IF sleepEnable THEN FMul(snap0, One) ELSE snap0
    IN  smoothValue + FMul(smoothValue - FromInt(nv), snap)

Smooth(nv) ==
    LET diff  == ToInt(Abs(FromInt(nv) - smoothValue))
        snap0 == snapCurve(diff * snapMultiplier)
        \* snap *= 0.5 + 0.5
        snap  == IF sleepEnable THEN FMul(snap0, One) ELSE snap0
    IN  smoothValue + FMul(FromInt(nv) - smoothValue, snap)

\* getResponsiveValue(newValue): the fields it writes and the value it returns
getResponsiveValue(newValue) ==
    LET nv  == EdgeSnap(newValue)
        err == ErrorUpdate(nv)
        slp == IF sleepEnable THEN SleepTest(err) ELSE sleeping
    IN  IF sleepEnable /\ slp
        THEN [smooth |-> smoothValue, err |-> err, sleeping |-> slp,
              ret |-> ToInt(smoothValue)]
        ELSE LET s == Clamp(Smooth(nv))
             IN  [smooth |-> s, err |-> err, sleeping |-> slp, ret |-> ToInt(s)]

-----------------------------------------------------------------------------
(* The range mapper *)

\* a range table as setMap receives it: two parallel arrays and a size
Table(in, out) == [in |-> in, out |-> out, size |-> Len(in)]

SeqsOf(S, n) == [1..n -> S]

InVals == {0, 1, 3}

\* outPoint columns of n entries: rising by 2, falling by 2
Rising(n) == [i \in 1..n |-> 2 * (i - 1)]

Falling(n) == [i \in 1..n |-> 2 * (n - i)]

\* every table of 0..MaxMapSize points whose inPoint column is any sequence
\* over InVals, sorted or not, with a rising or a falling outPoint column, and
\* the table in=[0,100,200], out=[0,128,255]
Tables ==
    { Table(i, o) : <<i, o>> \in UNION { SeqsOf(InVals, n) \X {Rising(n), Falling(n)}
                                         : n \in 0..MaxMapSize } }
    \cup { Table(<<0, 100, 200>>, <<0, 128, 255>>) }

MapVals == (-1 .. 4) \cup {-10, 50, 100, 150, 500}

\* the tables the filter's specification installs: a well-formed one and one
\* with a repeated inPoint
FilterTables == { Table(<<0, 100, 200>>, <<0, 128, 255>>),
                  Table(<<1, 1>>, <<0, 2>>) }

\* what a read outside the caller's arrays may yield
Garbage == {-7, 0, 9}

\* _in[i] and _out[i] for the C index i
InAt(i) == _in[i + 1]

OutAt(i) == _out[i + 1]

InBounds(i) == 0 <= i /\ i < _mapSize

\* line 154: val <= _in[0]
BelowRange(val) == val <= InAt(0)

\* line 155: val >= _in[_mapSize-1]
AboveRangeOut(val) == val >= OutAt(_mapSize - 1)

AboveRange(val) == val >= InAt(_mapSize - 1)

\* lines 172-173: pos = 1; while(val > _in[pos]) pos++;
\* stops where the loop stops, or at the first index read outside the table
RECURSIVE Scan(_, _)
Scan(val, pos) ==
    IF ~InBounds(pos) THEN pos
    ELSE IF val > InAt(pos) THEN Scan(val, pos + 1)
    ELSE pos

\* line 181, with C's truncating division
InterpolateFloor(val, pos) ==
    ((val - InAt(pos - 1)) * (OutAt(pos) - OutAt(pos - 1)))
        \div (InAt(pos) - InAt(pos - 1)) + OutAt(pos - 1)

Interpolate(val, pos) ==
    TruncDiv((val - InAt(pos - 1)) * (OutAt(pos) - OutAt(pos - 1)),
             InAt(pos) - InAt(pos - 1)) + OutAt(pos - 1)

\* the record of one multiMap call: its argument and result, whether the
\* interval scan ran and where it stopped, whether a read fell outside the
\* table, whether line 181 was evaluated and with which divisor
NoCall == [called |-> FALSE, val |-> 0, result |-> 0, scanned |-> FALSE, pos |-> 0,
           oob |-> FALSE, interpolated |-> FALSE, divisor |-> 0]

Returned(val, r) ==
    [called |-> TRUE, val |-> val, result |-> r, scanned |-> FALSE, pos |-> 0,
     oob |-> FALSE, interpolated |-> FALSE, divisor |-> 0]

Scanned(val, r, pos) == [Returned(val, r) EXCEPT !.scanned = TRUE, !.pos = pos]

\* multiMap(val): the outcomes of one call.  A call that reads outside the
\* table has undefined behaviour: any result.
multiMap(val) ==
    IF ~InBounds(0)
    THEN { [Returned(val, g) EXCEPT !.oob = TRUE] : g \in Garbage }
    ELSE IF BelowRange(val) THEN { Returned(val, OutAt(0)) }
    ELSE IF AboveRange(val) THEN { Returned(val, OutAt(_mapSize - 1)) }
    ELSE LET pos == Scan(val, 1)
         IN  IF ~InBounds(pos)
             THEN { [Scanned(val, g, pos) EXCEPT !.oob = TRUE] : g \in Garbage }
             ELSE IF val = InAt(pos) THEN { Scanned(val, OutAt(pos), pos) }
             ELSE IF InAt(pos) - InAt(pos - 1) = 0
                  THEN { [Scanned(val, g, pos) EXCEPT !.interpolated = TRUE]
                         : g \in Garbage }
                  ELSE { [Scanned(val, Interpolate(val, pos), pos) EXCEPT
                             !.interpolated = TRUE,
                             !.divisor = InAt(pos) - InAt(pos - 1)] }

-----------------------------------------------------------------------------
(* Initial state: a channel constructed with begin(pin, sleepEnable,        *)
(* snapMultiplier), no range table installed, no sample fed yet.            *)

NoHold == [on |-> FALSE, v |-> 0]

Init ==
    /\ sleepEnable \in BOOLEAN
    /\ \E m \in Multipliers :
          /\ snapMultiplier = ClampMultiplier(m)
          /\ lastCall = [op |-> "begin", raw |-> 0, m |-> m, se |-> sleepEnable]
    /\ edgeSnapEnable \in BOOLEAN
    /\ pin \in Pins
    /\ _max = 1023
    /\ _useByte = TRUE
    /\ smoothValue = 0
    /\ errorEMA = 0
    /\ sleeping = FALSE
    /\ rawValue = 0
    /\ responsiveValue = 0
    /\ prevResponsiveValue = 0
    /\ responsiveValueHasChanged = FALSE
    /\ _in = << >>
    /\ _out = << >>
    /\ _mapSize = 0
    /\ _map = FALSE
    /\ mm = NoCall
    /\ emitted = << 0, 0 >>
    /\ steps = 0
    /\ installs = 0
    /\ held = NoHold
    /\ tick = 0

-----------------------------------------------------------------------------
(* Operations *)

Call(op, raw, m, se) == [op |-> op, raw |-> raw, m |-> m, se |-> se]

\* update(int rawValueRead); `count` is what the call adds to steps
UpdateWithSwapped(rawValueRead, count) ==
    LET r == getResponsiveValue(rawValueRead)
    IN  /\ rawValue' = rawValueRead
        /\ responsiveValue' = r.ret
        /\ prevResponsiveValue' = r.ret
        /\ responsiveValueHasChanged' = FALSE
        /\ smoothValue' = r.smooth
        /\ errorEMA' = r.err
        /\ sleeping' = r.sleeping
        /\ emitted' = << emitted[2], r.ret >>
        /\ lastCall' = Call("update", rawValueRead, 0, FALSE)
        /\ steps' = steps + count
        /\ UNCHANGED << configVars, mapVars, mm, installs >>

UpdateWith(rawValueRead, count) ==
    LET r == getResponsiveValue(rawValueRead)
    IN  /\ rawValue' = rawValueRead
        /\ prevResponsiveValue' = responsiveValue
        /\ responsiveValue' = r.ret
        /\ responsiveValueHasChanged' = (r.ret /= responsiveValue)
        /\ smoothValue' = r.smooth
        /\ errorEMA' = r.err
        /\ sleeping' = r.sleeping
        /\ emitted' = << emitted[2], r.ret >>
        /\ lastCall' = Call("update", rawValueRead, 0, FALSE)
        /\ steps' = steps + count
        /\ UNCHANGED << configVars, mapVars, mm, installs >>

Update(rawValueRead) ==
    /\ ~held.on
    /\ steps < MaxSteps
    /\ UpdateWith(rawValueRead, 1)
    /\ UNCHANGED << held, tick >>

\* setSnapMultiplier(newMultiplier)
SetSnapMultiplier(newMultiplier) ==
    /\ ~held.on
    /\ steps < MaxSteps
    /\ snapMultiplier' = ClampMultiplier(newMultiplier)
    /\ lastCall' = Call("setSnapMultiplier", 0, newMultiplier, FALSE)
    /\ steps' = steps + 1
    /\ UNCHANGED << sleepEnable, edgeSnapEnable, pin, _max, _useByte,
                    filterVars, mapVars, mm, installs, held, tick >>

\* begin(pin, sleepEnable, snapMultiplier)
BeginReset(p, se, m) ==
    /\ ~held.on
    /\ steps < MaxSteps
    /\ pin' = p
    /\ sleepEnable' = se
    /\ snapMultiplier' = ClampMultiplier(m)
    /\ _max' = 1023
    /\ _useByte' = TRUE
    /\ smoothValue' = 0
    /\ errorEMA' = 0
    /\ lastCall' = Call("begin", 0, m, se)
    /\ steps' = steps + 1
    /\ UNCHANGED << edgeSnapEnable, sleeping, rawValue, responsiveValue,
                    prevResponsiveValue, responsiveValueHasChanged, emitted,
                    mapVars, mm, installs, held, tick >>

Begin(p, se, m) ==
    /\ ~held.on
    /\ steps < MaxSteps
    /\ pin' = p
    /\ sleepEnable' = se
    /\ snapMultiplier' = ClampMultiplier(m)
    /\ _max' = 1023
    /\ _useByte' = TRUE
    /\ lastCall' = Call("begin", 0, m, se)
    /\ steps' = steps + 1
    /\ UNCHANGED << edgeSnapEnable, filterVars, mapVars, mm, installs, held, tick >>

\* setMap(in, out, size)
SetMap(t) ==
    /\ ~held.on
    /\ steps < MaxSteps
    /\ installs < MaxInstalls
    /\ installs' = installs + 1
    /\ _in' = t.in
    /\ _out' = t.out
    /\ _mapSize' = t.size
    /\ _map' = TRUE
    /\ mm' = NoCall
    /\ lastCall' = Call("setMap", 0, 0, FALSE)
    /\ steps' = steps + 1
    /\ UNCHANGED << configVars, filterVars, held, tick >>

\* doMapping(val) with a table installed: multiMap(val)
MultiMap(val) ==
    /\ ~held.on
    /\ _map
    /\ mm' \in multiMap(val)
    /\ lastCall' = Call("multiMap", val, 0, FALSE)
    /\ UNCHANGED << configVars, filterVars, mapVars, steps, installs, held, tick >>

\* update(raw) before a constant feed starts
WarmUp(rawValueRead) ==
    /\ ~held.on
    /\ steps < MaxWarmup
    /\ UpdateWith(rawValueRead, 1)
    /\ UNCHANGED << held, tick >>

\* the caller settles into a loop that feeds the same sample on every update
StartHold(v) ==
    /\ ~held.on
    /\ ~sleepEnable
    /\ held' = [on |-> TRUE, v |-> v]
    /\ UNCHANGED << configVars, filterVars, mapVars, mm, lastCall, steps, installs,
                    tick >>

\* one iteration of that loop: update(v)
HeldUpdate ==
    /\ held.on
    /\ UpdateWith(held.v, 0)
    /\ tick' = 1 - tick
    /\ UNCHANGED held

-----------------------------------------------------------------------------
(* Specifications *)

\* the filter: updates interleaved with reconfiguration
Next ==
    \/ \E raw \in RawSamples : Update(raw)
    \/ \E m \in Multipliers : SetSnapMultiplier(m)
    \/ \E p \in Pins, se \in BOOLEAN, m \in Multipliers : Begin(p, se, m)
    \/ \E t \in FilterTables : SetMap(t)

Spec == Init /\ [][Next]_vars

\* the range mapper: tables installed and values mapped
NextMap ==
    \/ \E t \in Tables : SetMap(t)
    \/ \E val \in MapVals : MultiMap(val)

SpecMap == Init /\ [][NextMap]_vars

\* the filter, then a loop feeding one constant sample for ever
NextConst ==
    \/ \E raw \in WarmupSamples : WarmUp(raw)
    \/ \E v \in RawSamples : StartHold(v)
    \/ HeldUpdate

SpecConst == Init /\ [][NextConst]_vars /\ WF_vars(HeldUpdate)

-----------------------------------------------------------------------------
(* Properties of the filter, checked under Spec *)

\* the step is a call of the named operation
Called(op) == steps' = steps + 1 /\ lastCall'.op = op

InRange(i) == 0 <= i /\ i <= analogResolution - 1

\* C1: every value getResponsiveValue returns, on awake and on sleeping
\* updates and for samples below or above the input range, is an integer in
\* [0, analogResolution - 1] (and smoothValue stays in that range)
C1_OutputInRange ==
    /\ InRange(emitted[2])
    /\ InRange(responsiveValue)
    /\ 0 <= smoothValue /\ smoothValue <= FromInt(analogResolution - 1)

\* an awake update with a sample above the range emitted the top value
C1_Witness ==
    /\ lastCall.op = "update"
    /\ lastCall.raw > analogResolution - 1
    /\ ~(sleepEnable /\ sleeping)
    /\ emitted[2] = analogResolution - 1

\* C2: with sleepEnable, an update whose fresh errorEMA is below
\* activityThreshold in magnitude leaves smoothValue unchanged, returns its
\* truncation, keeps the output and reports no change
C2_SleepFreeze ==
    [][ (Called("update") /\ sleepEnable /\ Abs(errorEMA') < activityThreshold)
        => /\ smoothValue' = smoothValue
           /\ emitted'[2] = ToInt(smoothValue)
           /\ responsiveValue' = responsiveValue
           /\ ~responsiveValueHasChanged' ]_vars

\* a sleeping update that was fed a sample one off the settled value
C2_Witness ==
    /\ lastCall.op = "update"
    /\ sleepEnable /\ sleeping
    /\ Abs(errorEMA) < activityThreshold
    /\ smoothValue = FromInt(6)
    /\ rawValue = 5
    /\ responsiveValue = 6

\* C5: after setSnapMultiplier(m), directly or via begin, snapMultiplier is
\* min(1.0, max(0.0, m)); it always lies in [0.0, 1.0]
C5_MultiplierClamped ==
    /\ 0 <= snapMultiplier /\ snapMultiplier <= One
    /\ lastCall.op \in {"setSnapMultiplier", "begin"}
          => snapMultiplier = Min(One, Max(0, lastCall.m))

\* setSnapMultiplier(5.0) stored 1.0
C5_Witness ==
    /\ lastCall.op = "setSnapMultiplier"
    /\ lastCall.m = 5 * FP
    /\ snapMultiplier = One

\* C7: setSnapMultiplier, setMap and begin leave smoothValue, errorEMA, the
\* current and previous outputs and the changed flag as they were
C7_ReconfigureKeepsState ==
    [][ (Called("setSnapMultiplier") \/ Called("setMap") \/ Called("begin"))
        => UNCHANGED << smoothValue, errorEMA, responsiveValue,
                        prevResponsiveValue, responsiveValueHasChanged >> ]_vars

\* begin was called on a channel whose filter state had moved off its initial
\* values
C7_Witness ==
    /\ lastCall.op = "begin"
    /\ steps > 0
    /\ smoothValue > 0
    /\ errorEMA /= 0
    /\ responsiveValue /= prevResponsiveValue
    /\ responsiveValueHasChanged

\* C8: after update(raw), rawValue is raw, prevResponsiveValue is the output
\* of the preceding update, responsiveValue is the truncated smoothValue and
\* responsiveValueHasChanged tells whether the two outputs differ
C8_UpdateBookkeeping ==
    lastCall.op = "update" =>
        /\ rawValue = lastCall.raw
        /\ prevResponsiveValue = emitted[1]
        /\ responsiveValue = ToInt(smoothValue)
        /\ responsiveValue = emitted[2]
        /\ responsiveValueHasChanged = (responsiveValue /= prevResponsiveValue)

\* an update changed the output from one non-zero value to another
C8_Witness ==
    /\ lastCall.op = "update"
    /\ emitted[1] > 0
    /\ emitted[2] > 0
    /\ emitted[1] /= emitted[2]
    /\ responsiveValueHasChanged

\* C9: in every reachable state sleeping is true only if sleep mode is
\* enabled and the most recently computed |errorEMA| is below
\* activityThreshold; sleeping is never true while sleepEnable is false.
\* The flag is written only at line 86, inside if(sleepEnable), and begin
\* does not clear it, so it outlives the sleep mode that set it.
C9_SleepingOnlyWhenEnabled ==
    sleeping => (sleepEnable /\ Abs(errorEMA) < activityThreshold)

-----------------------------------------------------------------------------
(* Properties of the range mapper, checked under SpecMap *)

\* at least 2 points, inPoint strictly increasing
WellFormed ==
    /\ _mapSize >= 2
    /\ \A i \in 0 .. (_mapSize - 2) : InAt(i) < InAt(i + 1)

\* the piecewise function of the specification
Reference(val) ==
    IF val <= InAt(0) THEN OutAt(0)
    ELSE IF val >= InAt(_mapSize - 1) THEN OutAt(_mapSize - 1)
    ELSE LET i == CHOOSE k \in 0 .. (_mapSize - 1) :
                     /\ InAt(k) >= val
                     /\ \A j \in 0 .. (_mapSize - 1) : InAt(j) >= val => k <= j
         IN  IF val = InAt(i) THEN OutAt(i)
             ELSE OutAt(i - 1)
                  + TruncDiv((val - InAt(i - 1)) * (OutAt(i) - OutAt(i - 1)),
                             InAt(i) - InAt(i - 1))

\* C3: on a table of n >= 2 points with strictly increasing inPoint values,
\* multiMap(val) is the reference piecewise function, with truncating division
C3_MatchesReference ==
    (mm.called /\ WellFormed) => mm.result = Reference(mm.val)

\* in=[0,100,200], out=[0,128,255] mapped 50 to 64 by interpolation
C3_Witness ==
    /\ mm.called /\ WellFormed
    /\ _in = <<0, 100, 200>> /\ _out = <<0, 128, 255>>
    /\ mm.val = 50 /\ mm.interpolated /\ mm.result = 64

\* C4 as claimed: a table in use has at least 2 points and strictly
\* increasing inPoint values (a malformed one is rejected by setMap)
C4_MalformedTableRejected ==
    _map => WellFormed

\* C10: on a table of n >= 1 entries, sorted or not, multiMap reads no entry
\* outside [0, n-1], its scan stops at 1 <= pos <= n-1, and when it
\* interpolates inPoint[pos-1] < val < inPoint[pos], so the divisor is positive
C10_ScanInBounds ==
    (mm.called /\ _mapSize >= 1) =>
        /\ ~mm.oob
        /\ mm.scanned => (1 <= mm.pos /\ mm.pos <= _mapSize - 1)
        /\ mm.interpolated =>
              /\ mm.scanned
              /\ InAt(mm.pos - 1) < mm.val /\ mm.val < InAt(mm.pos)
              /\ mm.divisor = InAt(mm.pos) - InAt(mm.pos - 1)
              /\ mm.divisor > 0

\* an unsorted table was scanned past its second entry and interpolated
C10_Witness ==
    /\ mm.called /\ ~WellFormed
    /\ _mapSize = 3
    /\ mm.scanned /\ mm.pos = 2
    /\ mm.interpolated

-----------------------------------------------------------------------------
(* Convergence under a constant sample, checked under SpecConst *)

Gap == Abs(FromInt(held.v) - smoothValue)

=============================================================================
